---- MODULE Spec2Model ----
(***************************************************************************)
(* A model of the rumor-classification pipeline:                           *)
(*   code_bill/lib/utils/twitter_data.py  (TwitterData, MyNode)            *)
(*   code_bill/lib/models/bert.py         (BertMNLIFinetuner)              *)
(*                                                                         *)
(* Python values are modelled with their run-time type where the code's    *)
(* behaviour depends on it: a str is <<"str", s>>, an int is <<"int", n>>, *)
(* and the two never compare equal.  A dict is a sequence of <<key,value>> *)
(* pairs with unique keys, kept in insertion order.  None is the string    *)
(* "None"; an attribute that was never assigned is "UNSET".                *)
(***************************************************************************)
EXTENDS Integers, Sequences, FiniteSets, Bags, TLC

VARIABLES
    file_lines,      \* SpecRead: the lines of the file handed to _read_text/_read_label
    read_out,        \* SpecRead: what the last reader call returned/printed/raised
    tree_in,         \* SpecTree: the arguments of _encode_tree (tree_map, max_length)
    enc_out,         \* SpecTree: what _encode_tree computed for them
    hparams,         \* SpecBert: constructor arguments of BertMNLIFinetuner and the encoder's shape
    requires_grad,   \* SpecBert: requires_grad of self.bert.parameters(), in enumeration order
    classifier,      \* SpecBert: the layers of self.classifier
    last_freeze,     \* SpecBert: the argument of the last freeze_layer call
    fs,              \* SpecData: the dataset files under settings.data
    cache,           \* SpecData: the files tree_maps_{t}.p under settings.checkpoint
    obj,             \* SpecData: the attributes of the current TwitterData instance
    trace,           \* SpecData: what the calls on the instance did (history)
    last_call        \* SpecUse: the last dataloader read or training/evaluation step

readVars == <<file_lines, read_out>>
treeVars == <<tree_in, enc_out>>
bertVars == <<hparams, requires_grad, classifier, last_freeze>>
dataVars == <<fs, cache, obj, trace, last_call>>
vars == <<file_lines, read_out, tree_in, enc_out, hparams, requires_grad, classifier, last_freeze,
          fs, cache, obj, trace, last_call>>

None == "None"
\* F applied to the value of v, with v evaluated once
Bind(v, F(_)) == CHOOSE r \in { F(x) : x \in {v} } : TRUE
Min2(a, b) == IF a <= b THEN a ELSE b
UNSET == "UNSET"

(***************************************************************************)
(* Python values                                                           *)
(***************************************************************************)
PyStr(s) == <<"str", s>>
PyInt(n) == <<"int", n>>

\* Python's ==: values of different type are never equal.
PyEq(a, b) == a[1] = b[1] /\ a[2] = b[2]

\* int(s) for the id strings of the model: surrounding whitespace and leading
\* zeros are accepted, anything that is not a decimal literal raises ValueError.
IntLiterals ==
    [s \in {"1", "01", "1\n"} |-> 1] @@ [s \in {"2", "2\n"} |-> 2] @@ [s \in {"3"} |-> 3]
    @@ [s \in {"10"} |-> 10] @@ [s \in {"11"} |-> 11] @@ [s \in {"12"} |-> 12]
IsIntLiteral(s) == s \in DOMAIN IntLiterals
IntOfStr(s) == IntLiterals[s]

\* dict as a sequence of <<key, value>> pairs
DictKeys(d) == { d[i][1] : i \in 1..Len(d) }
DictHas(d, k) == \E i \in 1..Len(d) : PyEq(d[i][1], k)
DictGet(d, k) == d[CHOOSE i \in 1..Len(d) : PyEq(d[i][1], k)][2]
DictSet(d, k, v) ==
    IF DictHas(d, k)
    THEN [i \in 1..Len(d) |-> IF PyEq(d[i][1], k) THEN <<k, v>> ELSE d[i]]
    ELSE Append(d, <<k, v>>)

(***************************************************************************)
(* _read_text / _read_label                                                *)
(* A line is given by its fields after the split on the delimiter; the     *)
(* tuple unpacking needs exactly two of them.                               *)
(***************************************************************************)
ReadStart == [pairs |-> <<>>, printed |-> <<>>, raised |-> None]

\* `id not in pairs.keys()`: id is the str read from the line, the keys are
\* the ints stored by pairs[int(id)].
IdNotInKeys(acc, id) == ~DictHas(acc.pairs, PyStr(id))

\* one iteration of the loop body, with the id in field idpos, the value in valpos
ReadLine(acc, line, idpos, valpos) ==
    IF acc.raised # None THEN acc
    ELSE IF Len(line) # 2 THEN [acc EXCEPT !.raised = "ValueError"]
    ELSE IF IdNotInKeys(acc, line[idpos])
         THEN IF ~IsIntLiteral(line[idpos])
              THEN [acc EXCEPT !.raised = "ValueError"]
              ELSE [acc EXCEPT !.pairs =
                        DictSet(acc.pairs, PyInt(IntOfStr(line[idpos])), line[valpos])]
         ELSE [acc EXCEPT !.printed = Append(acc.printed, "error")]

RECURSIVE ReadLoop(_, _, _, _)
ReadLoop(acc, lines, idpos, valpos) ==
    IF lines = <<>> THEN acc
    ELSE ReadLoop(ReadLine(acc, Head(lines), idpos, valpos), Tail(lines), idpos, valpos)

\* id, text = line.split('\t')
_read_text(lines) == ReadLoop(ReadStart, lines, 1, 2)
\* label, id = line.split(':')
_read_label(lines) == ReadLoop(ReadStart, lines, 2, 1)

(***************************************************************************)
(* SpecRead: the two readers applied to every small file                   *)
(***************************************************************************)
MaxLines == 3
IdStrings == {"1", "01", "2", "x"}
ValStrings == {"a", "b"}
\* fields of a line: <<f1, f2>>, or a line without delimiter <<f1>>
TextLines == (IdStrings \X ValStrings) \cup {<<"junk">>}
LabelLines == (ValStrings \X IdStrings) \cup {<<"junk">>}

SeqsUpTo(S, n) == UNION { [1..k -> S] : k \in 0..n }

ReadIdle == file_lines = <<>> /\ read_out = [op |-> "none"]
TreeIdle == tree_in = None /\ enc_out = [op |-> "none"]
BertIdle ==
    /\ hparams = None
    /\ requires_grad = <<>>
    /\ classifier = UNSET
    /\ last_freeze = UNSET

DataIdle ==
    /\ fs = None
    /\ cache = None
    /\ obj = None
    /\ trace = None
    /\ last_call = [op |-> "none"]

InitRead ==
    /\ DataIdle
    /\ TreeIdle
    /\ BertIdle
    /\ file_lines \in SeqsUpTo(TextLines, MaxLines) \cup SeqsUpTo(LabelLines, MaxLines)
    /\ read_out = [op |-> "none"]

DoReadText ==
    /\ read_out.op = "none"
    /\ file_lines \in SeqsUpTo(TextLines, MaxLines)
    /\ read_out' = [op |-> "_read_text", idpos |-> 1, valpos |-> 2,
                    res |-> _read_text(file_lines)]
    /\ UNCHANGED <<file_lines, treeVars, bertVars, dataVars>>

DoReadLabel ==
    /\ read_out.op = "none"
    /\ file_lines \in SeqsUpTo(LabelLines, MaxLines)
    /\ read_out' = [op |-> "_read_label", idpos |-> 2, valpos |-> 1,
                    res |-> _read_label(file_lines)]
    /\ UNCHANGED <<file_lines, treeVars, bertVars, dataVars>>

NextRead == DoReadText \/ DoReadLabel

SpecRead == InitRead /\ [][NextRead]_vars

(***************************************************************************)
(* Trees.  A parsed tree (anytree Node objects built by _build_tree) is a  *)
(* sequence of nodes [parent, t]: node 1 is the root (parent 0), a node is *)
(* created after its parent, and the children of a node are kept in the    *)
(* order in which they were attached.                                      *)
(***************************************************************************)
RECURSIVE ConcatAll(_)
ConcatAll(ss) == IF ss = <<>> THEN <<>> ELSE Head(ss) \o ConcatAll(Tail(ss))

RECURSIVE SeqSum(_)
SeqSum(s) == IF s = <<>> THEN 0 ELSE Head(s) + SeqSum(Tail(s))

RECURSIVE SortedSeq(_)
SortedSeq(S) ==
    IF S = {} THEN <<>>
    ELSE LET m == CHOOSE x \in S : \A y \in S : x <= y
         IN <<m>> \o SortedSeq(S \ {m})

\* node.children, as node indices in attach order
ChildrenOf(tree, p) == SortedSeq({ i \in 1..Len(tree) : tree[i].parent = p })

\* anytree.LevelOrderIter(root): breadth-first, level by level
RECURSIVE LevelOrderFrom(_, _)
LevelOrderFrom(tree, level) ==
    IF level = <<>> THEN <<>>
    ELSE level \o LevelOrderFrom(tree,
             ConcatAll([k \in 1..Len(level) |-> ChildrenOf(tree, level[k])]))

LevelOrderIter(tree) == LevelOrderFrom(tree, <<1>>)

(***************************************************************************)
(* _encode_tree                                                            *)
(***************************************************************************)
\* variant: the limit counts emitted values instead of visited nodes
TruncateHere_CountEmitted(i, encoding, max_length) ==
    max_length # -1 /\ Len(encoding) >= max_length

\* the truncation test of the loop: i is the enumerate() index of the node
\* being visited, encoding is what has been emitted so far
TruncateHere(i, encoding, max_length) == max_length # -1 /\ i >= max_length

\* for i, node in enumerate(LevelOrderIter(root)): ... (rest = nodes not yet visited)
RECURSIVE EncodeLoop(_, _, _, _, _)
EncodeLoop(tree, rest, i, encoding, max_length) ==
    IF rest = <<>> THEN encoding
    ELSE IF TruncateHere(i, encoding, max_length) THEN encoding
    ELSE IF tree[Head(rest)].t - tree[1].t < 0
         THEN EncodeLoop(tree, Tail(rest), i + 1, encoding, max_length)
         ELSE EncodeLoop(tree, Tail(rest), i + 1,
                         Append(encoding, tree[Head(rest)].t - tree[1].t), max_length)

EncodeDeltas(tree, max_length) == EncodeLoop(tree, LevelOrderIter(tree), 0, <<>>, max_length)

\* np.log10(x + 1), exact on the time differences the model uses
Log10Plus1(x) ==
    CASE x = 0  -> 0
      [] x = 9  -> 1
      [] x = 99 -> 2

\* variant: the padding stops one entry short
PadEncoding_OneShort(encoding, max_length, padding) ==
    IF padding /\ max_length - Len(encoding) > 1
    THEN encoding \o [k \in 1..(max_length - Len(encoding) - 1) |-> 0]
    ELSE encoding

\* np.pad(encoding, (0, max_length - len_e)) when padding and there is room
PadEncoding(encoding, max_length, padding) ==
    IF padding /\ max_length - Len(encoding) > 0
    THEN encoding \o [k \in 1..(max_length - Len(encoding)) |-> 0]
    ELSE encoding

\* the per-tree part of _encode_tree, before the corpus-wide re-centering
EncodeOne(tree, max_length, padding) ==
    LET emitted == EncodeDeltas(tree, max_length)
        en_log  == [k \in 1..Len(emitted) |-> Log10Plus1(emitted[k])]
    IN [emitted |-> emitted, en_log |-> en_log,
        padded |-> PadEncoding(en_log, max_length, padding)]

RECURSIVE SeqProd(_)
SeqProd(s) == IF s = <<>> THEN 1 ELSE Head(s) * SeqProd(Tail(s))

\* _encode_tree(tree_map, max_length, padding): tree_map is a function from
\* the int conversation ids to trees.  The re-centred values are rationals;
\* they are kept as numerators over the common denominator den, where
\*   my_mean = (sum over k of sum(v_k)/len(v_k)) / K.
Recentre(tree_map, one) ==
    LET keys   == SortedSeq(DOMAIN tree_map)
        K      == Len(keys)
        lens   == [j \in 1..K |-> Len(one[keys[j]].padded)]
        P      == SeqProd(lens)
        sums   == [j \in 1..K |-> SeqSum(one[keys[j]].padded) * (P \div lens[j])]
    IN Bind(K * P, LAMBDA den :
       Bind(SeqSum(sums), LAMBDA meanN :
         [per_tree |-> one,
          den |-> den,
          my_mean |-> meanN,
          encoded_trees |-> [k \in DOMAIN tree_map |->
                [m \in 1..Len(one[k].padded) |-> one[k].padded[m] * den - meanN]]]))

_encode_tree(tree_map, max_length, padding) ==
    Bind([k \in DOMAIN tree_map |-> EncodeOne(tree_map[k], max_length, padding)],
         LAMBDA one : Recentre(tree_map, one))

(***************************************************************************)
(* SpecTree: _encode_tree applied to every small tree map                  *)
(***************************************************************************)
MaxNodes == 4
MaxTreeLength == 3
RootTimes == {0, 9}
DeltaChoices == {-1, 0, 9, 99}

RECURSIVE TreesOfSize(_, _)
TreesOfSize(n, t0) ==
    IF n = 1 THEN { <<[parent |-> 0, t |-> t0]>> }
    ELSE { Append(tr, [parent |-> p, t |-> t0 + d]) :
              tr \in TreesOfSize(n - 1, t0), p \in 1..(n - 1), d \in DeltaChoices }

AllTrees == UNION { TreesOfSize(n, t0) : n \in 1..MaxNodes, t0 \in RootTimes }

\* a second conversation of the corpus, so that the mean is not one tree's own
OtherTree == <<[parent |-> 0, t |-> 0], [parent |-> 1, t |-> 9]>>

TreeMaps == { (1 :> tr) : tr \in AllTrees } \cup { (1 :> tr) @@ (2 :> OtherTree) : tr \in AllTrees }

InitTree ==
    /\ DataIdle
    /\ ReadIdle
    /\ BertIdle
    /\ tree_in \in [tree_map : TreeMaps, max_length : {-1} \cup 1..MaxTreeLength]
    /\ enc_out = [op |-> "none"]

\* the call of _load_data: self._encode_tree(tree_map, self.max_tree_length, padding=True)
DoEncodeTree ==
    /\ enc_out.op = "none"
    /\ enc_out' = [op |-> "_encode_tree",
                   res |-> _encode_tree(tree_in.tree_map, tree_in.max_length, TRUE)]
    /\ UNCHANGED <<tree_in, readVars, bertVars, dataVars>>

NextTree == DoEncodeTree

SpecTree == InitTree /\ [][NextTree]_vars

(***************************************************************************)
(* BertMNLIFinetuner: make_classifier and freeze_layer                     *)
(***************************************************************************)
\* TwitterData.__init__: self.n_class = 4, read by the model's constructor
\* before any data is loaded
DefaultNClass == 4
\* _create_model: self.tree_hidden_dim = 100
TreeHiddenDim == 100

Linear(in, out) == [kind |-> "Linear", in_features |-> in, out_features |-> out]
ReLU == [kind |-> "ReLU"]
Dropout == [kind |-> "Dropout"]

\* variant: the width is not updated after a stage
HiddenStage_KeepWidth(sz) == [layers |-> <<Linear(sz, sz \div 2), ReLU, Dropout>>, sz |-> sz]

\* one pass of the loop body of make_classifier: the layers added and the new sz
HiddenStage(sz) == [layers |-> <<Linear(sz, sz \div 2), ReLU, Dropout>>, sz |-> sz \div 2]

\* for l in range(layer_num-1): ...  (todo = passes left)
RECURSIVE ClassifierLoop(_, _, _)
ClassifierLoop(layers, sz, todo) ==
    IF todo <= 0 THEN [layers |-> layers, sz |-> sz]
    ELSE LET st == HiddenStage(sz)
         IN ClassifierLoop(layers \o st.layers, st.sz, todo - 1)

make_classifier(hidden_size, tree, num_classes, layer_num) ==
    LET sz0 == IF tree THEN hidden_size + TreeHiddenDim ELSE hidden_size
        r   == ClassifierLoop(<<>>, sz0, layer_num - 1)
    IN r.layers \o <<Linear(r.sz, num_classes)>>

\* variant: the parameter at the midpoint is made trainable as well
HalfTrainable_FromMidpoint(count, n) == count >= n \div 2

\* `if count > n//2: param.requires_grad = True`
HalfTrainable(count, n) == count > n \div 2

\* the 'half' loop: count is the 0-based enumeration index
RECURSIVE FreezeHalfLoop(_, _, _)
FreezeHalfLoop(params, count, n) ==
    IF count >= Len(params) THEN params
    ELSE FreezeHalfLoop(
            [params EXCEPT ![count + 1] = IF HalfTrainable(count, n) THEN TRUE ELSE FALSE],
            count + 1, n)

freeze_layer(params, freeze_type) ==
    CASE freeze_type = "all"  -> [i \in 1..Len(params) |-> FALSE]
      [] freeze_type = "no"   -> [i \in 1..Len(params) |-> TRUE]
      [] freeze_type = "half" -> FreezeHalfLoop(params, 0, Len(params))
      [] OTHER                -> params

(***************************************************************************)
(* SpecBert: construction of the model, then further freeze_layer calls    *)
(***************************************************************************)
MaxParams == 5
MaxLayers == 4
HiddenSizes == {5, 8, 768}
FreezeTypes == {"all", "no", "half", "none"}

InitBert ==
    /\ DataIdle
    /\ ReadIdle
    /\ TreeIdle
    /\ hparams \in [layer_num : 1..MaxLayers, tree : BOOLEAN, freeze_type : FreezeTypes,
                    hidden_size : HiddenSizes, n_params : 1..MaxParams]
    /\ requires_grad = <<>>
    /\ classifier = UNSET
    /\ last_freeze = UNSET

\* __init__: _create_model() loads the encoder (parameters trainable, as
\* loaded) and builds the classifier, then freeze_layer(freeze_type)
Construct ==
    /\ classifier = UNSET
    /\ classifier' = make_classifier(hparams.hidden_size, hparams.tree,
                                     DefaultNClass, hparams.layer_num)
    /\ requires_grad' = freeze_layer([i \in 1..hparams.n_params |-> TRUE], hparams.freeze_type)
    /\ last_freeze' = hparams.freeze_type
    /\ UNCHANGED <<hparams, readVars, treeVars, dataVars>>

FreezeLayer(freeze_type) ==
    /\ classifier # UNSET
    /\ requires_grad' = freeze_layer(requires_grad, freeze_type)
    /\ last_freeze' = freeze_type
    /\ UNCHANGED <<hparams, classifier, readVars, treeVars, dataVars>>

NextBert == Construct \/ \E ft \in FreezeTypes : FreezeLayer(ft)

SpecBert == InitBert /\ [][NextBert]_vars

(***************************************************************************)
(* _build_tree and _read_tree                                               *)
(* A tree file is a sequence of edge lines `p -> c`; p and c are the        *)
(* literal tuples (id, sid, t), with id and sid strings ('ROOT' or digits). *)
(***************************************************************************)
\* MyNode.__init__: 'ROOT' becomes 0, anything else goes through int()
MyNodeId(id) == IF id = "ROOT" THEN 0 ELSE IntOfStr(id)

BuildStart == [root |-> 0, nodes |-> <<>>, nodemap |-> <<>>]

\* one iteration of the loop of _build_tree; nodes are [id, t, parent] in
\* creation order, root = 0 stands for `root is None`, nodemap maps ids to
\* node indices
BuildLine(b, line) ==
    LET pid == MyNodeId(line.p[1])
        cid == MyNodeId(line.c[1])
    IN IF b.root = 0 /\ pid = 0
       THEN LET r == Len(b.nodes) + 1
            IN [root |-> r,
                nodes |-> Append(b.nodes, [id |-> cid, t |-> line.c[3], parent |-> 0]),
                nodemap |-> (cid :> r) @@ b.nodemap]
       ELSE LET known  == pid \in DOMAIN b.nodemap
                nodes1 == IF known THEN b.nodes
                          ELSE Append(b.nodes, [id |-> pid, t |-> line.p[3], parent |-> 0])
                map1   == IF known THEN b.nodemap ELSE (pid :> Len(nodes1)) @@ b.nodemap
                myp    == map1[pid]
                nodes2 == Append(nodes1, [id |-> cid, t |-> line.c[3], parent |-> myp])
            IN [root |-> b.root, nodes |-> nodes2,
                nodemap |-> (cid :> Len(nodes2)) @@ map1]

RECURSIVE BuildLoop(_, _)
BuildLoop(b, lines) ==
    IF lines = <<>> THEN b ELSE BuildLoop(BuildLine(b, Head(lines)), Tail(lines))

\* is node i the root r or one of its descendants
RECURSIVE UnderRoot(_, _, _)
UnderRoot(nodes, r, i) ==
    IF i = r THEN TRUE
    ELSE IF nodes[i].parent = 0 THEN FALSE
    ELSE UnderRoot(nodes, r, nodes[i].parent)

PosIn(seq, x) == CHOOSE k \in 1..Len(seq) : seq[k] = x

\* the tree hanging from the returned root, as [parent, t] nodes with the
\* root first; <<>> when the function returns None (no ROOT line)
_build_tree(lines) ==
    LET b == BuildLoop(BuildStart, lines)
    IN IF b.root = 0 THEN <<>>
       ELSE LET kept == SortedSeq({ i \in 1..Len(b.nodes) : UnderRoot(b.nodes, b.root, i) })
            IN [k \in 1..Len(kept) |->
                   [parent |-> IF kept[k] = b.root THEN 0
                               ELSE PosIn(kept, b.nodes[kept[k]].parent),
                    t |-> b.nodes[kept[k]].t]]

NoFile == [py |-> "absent", v |-> <<>>]
\* pickle.dump / pickle.load of a tree map
PickleDump(tree_map) == [py |-> "pickle", v |-> tree_map]
PickleLoad(file) == file.v

\* variant: the cache file is ignored and the directory parsed every time
CacheIsFile_Never(file) == FALSE

\* os.path.isfile(os.path.join(settings.checkpoint, pickle_fn))
CacheIsFile(file) == file.py = "pickle"

\* _read_tree(t, path): dir is the tree directory (file stem -> lines), file
\* the present content of tree_maps_{t}.p.  Returns the map, the cache file
\* afterwards, and whether the directory was listed.
_read_tree(dir, file) ==
    IF CacheIsFile(file)
    THEN [raised |-> None, tree_map |-> PickleLoad(file), file |-> file, listed |-> FALSE]
    ELSE IF \E fn \in DOMAIN dir : ~IsIntLiteral(fn)
         THEN [raised |-> "ValueError", tree_map |-> <<>>, file |-> file, listed |-> TRUE]
         ELSE LET tree_map == [k \in { IntOfStr(fn) : fn \in DOMAIN dir } |->
                                  _build_tree(dir[CHOOSE fn \in DOMAIN dir : IntOfStr(fn) = k])]
              IN [raised |-> None, tree_map |-> tree_map,
                  file |-> PickleDump(tree_map), listed |-> TRUE]

(***************************************************************************)
(* _load_data and its helpers                                              *)
(***************************************************************************)
NoneV == [py |-> "None", v |-> <<>>]
UnsetV == [py |-> "UNSET", v |-> <<>>]
ListV(l) == [py |-> "list", v |-> l]

\* _combine_data: one [text, tree, label] row per entry of texts, in dict order
RECURSIVE CombineLoop(_, _, _, _)
CombineLoop(acc, items, trees, labels) ==
    IF items = <<>> \/ acc.raised # None THEN acc
    ELSE LET id == Head(items)[1]
             text == Head(items)[2]
         IN IF ~DictHas(labels, id) \/ id[2] \notin DOMAIN trees
            THEN [acc EXCEPT !.raised = "KeyError"]
            ELSE CombineLoop([acc EXCEPT !.X = Append(@, <<text, trees[id[2]]>>),
                                         !.y = Append(@, DictGet(labels, id))],
                             Tail(items), trees, labels)

\* data[:, 0:2], data[:, 2]; an empty data array has one axis only
_combine_data(texts, trees, labels) ==
    LET r == CombineLoop([raised |-> None, X |-> <<>>, y |-> <<>>], texts, trees, labels)
    IN IF r.raised = None /\ r.X = <<>> THEN [r EXCEPT !.raised = "IndexError"] ELSE r

\* what a _read_tree call did, for the history of the model
ReadRecord(files, file, rt) ==
    [listed |-> rt.listed, returned |-> rt.tree_map, before |-> file, after |-> rt.file,
     dir |-> files.tree, raised |-> rt.raised]

\* the rest of the loop body once the tree map rt.tree_map is there: encode,
\* read the texts, read the labels, combine
LoadRest(files, file, max_tree_length, rt) ==
    LET result(exc, X, y) == [raised |-> exc, X |-> X, y |-> y, file |-> rt.file,
                              read |-> ReadRecord(files, file, rt)]
    IN IF rt.raised # None THEN result(rt.raised, <<>>, <<>>)
       ELSE IF \E k \in DOMAIN rt.tree_map : rt.tree_map[k] = <<>>
       THEN result("AttributeError", <<>>, <<>>)
       ELSE Bind(_encode_tree(rt.tree_map, max_tree_length, TRUE), LAMBDA enc :
            Bind(_read_text(files.text), LAMBDA texts :
              IF texts.raised # None THEN result(texts.raised, <<>>, <<>>)
              ELSE Bind(_read_label(files.label), LAMBDA labels :
                IF labels.raised # None THEN result(labels.raised, <<>>, <<>>)
                ELSE Bind(_combine_data(texts.pairs, enc.encoded_trees, labels.pairs),
                          LAMBDA cd : result(cd.raised, cd.X, cd.y)))))

\* the body of the loop `for t in tw` of _load_data, for one sub-dataset:
\* files are its text, label and tree directory, file its cache file
LoadOne(files, file, max_tree_length) ==
    Bind(_read_tree(files.tree, file),
         LAMBDA rt : LoadRest(files, file, max_tree_length, rt))

\* sorted(np.unique(label)) over the label names of the datasets
LabelNames == <<"false", "non-rumor", "true", "unverified">>
SeqRange(s) == { s[i] : i \in 1..Len(s) }
SortedClasses(label) ==
    LET present(c) == c \in SeqRange(label) IN SelectSeq(LabelNames, present)

\* _class_to_index with the class_to_index of _find_class: 0-based positions
_class_to_index(class_names, label) ==
    [i \in 1..Len(label) |-> PosIn(class_names, label[i]) - 1]

\* _find_class and _class_to_index on the two loaded sub-datasets a and b
LoadFinish(a, b) ==
    LET class_names == SortedClasses(a.y \o b.y)
    IN [raised |-> None, reads |-> <<a.read, b.read>>,
        caches |-> [twitter15 |-> a.file, twitter16 |-> b.file],
        tw15_X |-> a.X, tw15_y |-> _class_to_index(class_names, a.y),
        tw16_X |-> b.X, tw16_y |-> _class_to_index(class_names, b.y),
        class_names |-> class_names, n_class |-> Len(class_names)]

\* _load_data: twitter15 first, then twitter16; an exception in the first
\* leaves the second untouched
_load_data(files, caches, max_tree_length) ==
    Bind(LoadOne(files.twitter15, caches.twitter15, max_tree_length), LAMBDA a :
      IF a.raised # None
      THEN [raised |-> a.raised, reads |-> <<a.read>>,
            caches |-> [caches EXCEPT !.twitter15 = a.file]]
      ELSE Bind(LoadOne(files.twitter16, caches.twitter16, max_tree_length), LAMBDA b :
             IF b.raised # None
             THEN [raised |-> b.raised, reads |-> <<a.read, b.read>>,
                   caches |-> [twitter15 |-> a.file, twitter16 |-> b.file]]
             ELSE LoadFinish(a, b)))

(***************************************************************************)
(* _data_split                                                             *)
(***************************************************************************)
\* [[data, label] for data, label in zip(X, y)]
ZipPairs(X, y) == [i \in 1..Min2(Len(X), Len(y)) |-> <<X[i], y[i]>>]

\* sklearn train_test_split(X, y, train_size=0.8, shuffle=True, stratify=y):
\* n_train = floor(0.8 n), n_test = n - n_train
TrainCount(n) == (4 * n) \div 5
ClassCount(y, c) == Cardinality({ i \in 1..Len(y) : y[i] = c })
\* the ValueErrors of the stratified splitter
SplitRaises(y) ==
    LET n == Len(y)
        classes == SeqRange(y)
    IN \/ TrainCount(n) = 0
       \/ \E c \in classes : ClassCount(y, c) < 2
       \/ TrainCount(n) < Cardinality(classes)
       \/ n - TrainCount(n) < Cardinality(classes)
\* The shuffle is pseudo-random: any choice of the test positions is allowed
\* for, and the order inside a part is the original one.
TestChoices(n) == { S \in SUBSET (1..n) : Cardinality(S) = n - TrainCount(n) }
Pick(s, idx) == [k \in 1..Len(idx) |-> s[idx[k]]]

\* variant: the test examples are left in the training pool as well
TrainPositions_KeepAll(n, S) == SortedSeq(1..n)

\* the positions that go to the training side when S goes to the test side
TrainPositions(n, S) == SortedSeq((1..n) \ S)

\* the second split, of the training side (X_train, y_train) of the first,
\* whose test side is the list test
SecondSplit(X_train, y_train, test, cur) ==
    IF SplitRaises(y_train) THEN { [cur EXCEPT !.raised = "ValueError"] }
    ELSE { [raised |-> None,
            train |-> ListV(ZipPairs(Pick(X_train, TrainPositions(Len(X_train), S2)),
                                     Pick(y_train, TrainPositions(Len(X_train), S2)))),
            val   |-> ListV(ZipPairs(Pick(X_train, SortedSeq(S2)), Pick(y_train, SortedSeq(S2)))),
            test  |-> test]
           : S2 \in TestChoices(Len(X_train)) }

\* the two nested splits shared by 'tvt', '15_tvt' and '16_tvt'
NestedSplit(X, y, cur) ==
    IF SplitRaises(y) THEN { [cur EXCEPT !.raised = "ValueError"] }
    ELSE UNION {
           UNION { SecondSplit(Pick(X, tr1), Pick(y, tr1),
                               ListV(ZipPairs(Pick(X, SortedSeq(S1)), Pick(y, SortedSeq(S1)))),
                               cur)
                   : tr1 \in { TrainPositions(Len(X), S1) } }
           : S1 \in TestChoices(Len(X)) }

\* variant: the two sub-datasets change roles
Split1516_Swapped(d, cur) ==
    [cur EXCEPT !.train = ListV(ZipPairs(d.tw16_X, d.tw16_y)),
                !.test = ListV(ZipPairs(d.tw15_X, d.tw15_y))]

\* the '1516' branch: Twitter15 is train, Twitter16 is test
Split1516(d, cur) ==
    [cur EXCEPT !.train = ListV(ZipPairs(d.tw15_X, d.tw15_y)),
                !.test = ListV(ZipPairs(d.tw16_X, d.tw16_y))]

\* _data_split(split_type) on the loaded arrays d; cur holds self.train,
\* self.val, self.test before the call.  The set of possible results.
_data_split(split_type, d, cur) ==
    CASE split_type = "1516" -> { Split1516(d, cur) }
      [] split_type = "tt" -> { [cur EXCEPT !.raised = "AttributeError"] }
      [] split_type = "tvt" -> NestedSplit(d.tw15_X \o d.tw16_X, d.tw15_y \o d.tw16_y, cur)
      [] split_type = "15_tvt" -> NestedSplit(d.tw15_X, d.tw15_y, cur)
      [] split_type = "16_tvt" -> NestedSplit(d.tw16_X, d.tw16_y, cur)
      [] OTHER -> { cur }

(***************************************************************************)
(* _to_tensor, _set_dataloader                                             *)
(***************************************************************************)
\* the tokenizer's three outputs for a text
TokenizerField(field, text) == <<field, text>>

\* _convert_to_features: the per-example tuples, in the order the code builds them
_convert_to_features(example, tree) ==
    [i \in 1..Len(example) |->
        LET text == example[i][1][1]
            tvec == example[i][1][2]
            label == example[i][2]
        IN IF tree
           THEN << TokenizerField("input_ids", text), TokenizerField("token_type_ids", text),
                   TokenizerField("attention_mask", text), tvec, label >>
           ELSE << TokenizerField("input_ids", text), TokenizerField("token_type_ids", text),
                   TokenizerField("attention_mask", text), label >>]

TensorizeSplit(d, tree) == IF d.py = "None" THEN d ELSE ListV(_convert_to_features(d.v, tree))

\* _to_tensor: self.dataset
_to_tensor(o) ==
    [py |-> "dict", v |-> [train |-> TensorizeSplit(o.train, o.tree),
                           val |-> TensorizeSplit(o.val, o.tree),
                           test |-> TensorizeSplit(o.test, o.tree)]]

\* __init__ defaults: train_batch_size = val_batch_size = test_batch_size = 32
BatchSize == 32

\* torch DataLoader(dataset, batch_size, shuffle): with shuffle the random
\* sampler takes len(dataset) at construction, which fails on None
DataLoaderRaises(dataset, shuffle) == dataset.py = "None" /\ shuffle
DataLoader(dataset, batch_size, shuffle) ==
    [py |-> "DataLoader", v |-> [dataset |-> dataset, batch_size |-> batch_size,
                                  shuffle |-> shuffle]]

\* _set_dataloader: train, then test, then val when there is one
_set_dataloader(o) ==
    LET ds == o.dataset.v
    IN IF DataLoaderRaises(ds.train, TRUE) THEN [raised |-> "TypeError", obj |-> o]
       ELSE LET o1 == [o EXCEPT !._train_data = DataLoader(ds.train, BatchSize, TRUE),
                                !._test_data = DataLoader(ds.test, BatchSize, FALSE)]
            IN [raised |-> None,
                obj |-> IF ds.val.py # "None"
                        THEN [o1 EXCEPT !._val_data = DataLoader(ds.val, BatchSize, FALSE)]
                        ELSE o1]

(***************************************************************************)
(* TwitterData: __init__ and setup                                         *)
(***************************************************************************)
ValidSplitTypes == {"1516", "tv", "tvt", "15_tvt", "16_tvt"}
Sentinel == "641620"

\* max_tree_length of the instances of the model
DataTreeLength == 3

\* variant: the argument is stored as given
CoerceSplitType_Keep(split_type) == split_type

\* `if self.split_type not in [...]: self.split_type = '641620'`
CoerceSplitType(split_type) ==
    IF split_type \notin ValidSplitTypes THEN Sentinel ELSE split_type

\* the attributes after __init__
NewTwitterData(split_type, tree) ==
    [ctor_split |-> split_type,
     split_type |-> CoerceSplitType(split_type),
     tree |-> tree,
     max_tree_length |-> DataTreeLength,
     n_class |-> DefaultNClass,
     setup_flag |-> TRUE,
     train |-> UnsetV, val |-> UnsetV, test |-> UnsetV,
     loaded |-> UnsetV,
     dataset |-> UnsetV,
     _train_data |-> UnsetV, _test_data |-> UnsetV, _val_data |-> UnsetV]

\* variant: the one-shot flag is not consulted
SetupReturnsEarly_Never(setup_flag) == FALSE

\* `if not self.setup_flag: return`
SetupReturnsEarly(setup_flag) == ~setup_flag

SetupSteps == <<"_load_data", "_data_split", "_to_tensor", "_set_dataloader">>

\* _to_tensor and _set_dataloader after a split that returned sp
AfterSplit(o2, ld, sp) ==
    IF sp.raised # None
    THEN [obj |-> o2, caches |-> ld.caches, steps |-> SubSeq(SetupSteps, 1, 2),
          raised |-> sp.raised, reads |-> ld.reads]
    ELSE Bind([o2 EXCEPT !.train = sp.train, !.val = sp.val, !.test = sp.test], LAMBDA o3 :
         Bind(_set_dataloader([o3 EXCEPT !.dataset = _to_tensor(o3)]), LAMBDA sd :
           [obj |-> sd.obj, caches |-> ld.caches, steps |-> SetupSteps,
            raised |-> sd.raised, reads |-> ld.reads]))

\* the attributes once _load_data has returned ld
AfterLoad(o1, ld) ==
    [o1 EXCEPT !.loaded = [py |-> "loaded",
                           v |-> [tw15_X |-> ld.tw15_X, tw15_y |-> ld.tw15_y,
                                  tw16_X |-> ld.tw16_X, tw16_y |-> ld.tw16_y,
                                  class_names |-> ld.class_names]],
               !.n_class = ld.n_class]

\* variant: the flag is left for the end of a successful run
ClearFlag_Late(o) == o

\* `self.setup_flag = False`, the first statement after the flag test
ClearFlag(o) == [o EXCEPT !.setup_flag = FALSE]

\* what a setup() call that passes the flag test can do: the attributes and
\* cache files afterwards, the steps it entered and the exception it raised
SetupOutcomes(o, files, caches) ==
    LET o1 == [ClearFlag(o) EXCEPT !.train = NoneV, !.val = NoneV, !.test = NoneV]
    IN UNION {
         IF ld.raised # None
         THEN { [obj |-> o1, caches |-> ld.caches, steps |-> SubSeq(SetupSteps, 1, 1),
                 raised |-> ld.raised, reads |-> ld.reads] }
         ELSE UNION {
                { AfterSplit(o2, ld, sp) :
                    sp \in _data_split(o2.split_type, o2.loaded.v,
                             [raised |-> None, train |-> o2.train, val |-> o2.val,
                              test |-> o2.test]) }
                : o2 \in { AfterLoad(o1, ld) } }
         : ld \in { _load_data(files, caches, o.max_tree_length) } }

(***************************************************************************)
(* The dataset files of the model                                          *)
(***************************************************************************)
RootTuple == <<"ROOT", "ROOT", 0>>
Edge(p, c) == [p |-> p, c |-> c]
\* a conversation: the source tweet by user 10 and a reply by user 11 at time t
TreeFile(sid, t) ==
    << Edge(RootTuple, <<"10", sid, 0>>), Edge(<<"10", sid, 0>>, <<"11", sid, t>>) >>
\* the same with a reply stamped before the source tweet
TreeFileNeg(sid, t) == TreeFile(sid, t) \o << Edge(<<"10", sid, 0>>, <<"12", sid, -1>>) >>
\* a file whose first line is not the ROOT edge
TreeFileNoRoot(sid, t) == << Edge(<<"10", sid, 0>>, <<"11", sid, t>>) >>

Text15 == << <<"1", "a">>, <<"2", "b">>, <<"3", "c">> >>
Text16 == << <<"1", "d">>, <<"2", "e">> >>
Labels(l1, l2, l3) == << <<l1, "1">>, <<l2, "2">>, <<l3, "3">> >>
TreeDir15(t) == [fn \in {"1", "2", "3"} |-> IF fn = "2" THEN TreeFileNeg(fn, t) ELSE TreeFile(fn, t)]
TreeDir16(t) == [fn \in {"1", "2"} |-> TreeFile(fn, t)]

Worlds == {"one_class", "two_class", "dup_text", "no_label", "no_root"}

FilesOf(w) ==
    [twitter15 |->
        [text |-> IF w = "dup_text" THEN Text15 \o << <<"1", "z">> >> ELSE Text15,
         label |-> IF w = "two_class" THEN Labels("false", "false", "true")
                   ELSE Labels("false", "false", "false"),
         tree |-> TreeDir15(9)],
     twitter16 |->
        [text |-> Text16,
         label |-> IF w = "two_class" THEN SubSeq(Labels("false", "true", "true"), 1, 2)
                   ELSE IF w = "no_label" THEN SubSeq(Labels("false", "false", "false"), 1, 1)
                   ELSE SubSeq(Labels("false", "false", "false"), 1, 2),
         tree |-> IF w = "no_root" THEN [TreeDir16(9) EXCEPT !["2"] = TreeFileNoRoot("2", 9)]
                  ELSE TreeDir16(9)]]

\* the tree directory of a sub-dataset rewritten with other reply times
EditedTree(t, files) ==
    IF t = "twitter15"
    THEN IF files.twitter15.tree = TreeDir15(9) THEN TreeDir15(99) ELSE TreeDir15(9)
    ELSE IF files.twitter16.tree = TreeDir16(99) THEN TreeDir16(9) ELSE TreeDir16(99)

(***************************************************************************)
(* SpecData: instances of TwitterData over the dataset files               *)
(***************************************************************************)
MaxInstances == 2
MaxSetupCalls == 2
SplitArgs == ValidSplitTypes \cup {"tt", "bogus"}
SubDatasets == {"twitter15", "twitter16"}

NewTrace(n) == [instances |-> n, calls |-> 0, steps |-> <<>>, raised |-> None, reads |-> <<>>]

InitData ==
    /\ ReadIdle
    /\ TreeIdle
    /\ BertIdle
    /\ fs \in { FilesOf(w) : w \in Worlds }
    /\ cache = [twitter15 |-> NoFile, twitter16 |-> NoFile]
    /\ obj \in { NewTwitterData(st, tr) : st \in SplitArgs, tr \in BOOLEAN }
    /\ trace = NewTrace(1)
    /\ last_call = [op |-> "none"]

\* setup()
Setup ==
    /\ trace.calls < MaxSetupCalls
    /\ IF SetupReturnsEarly(obj.setup_flag)
       THEN /\ trace' = [trace EXCEPT !.calls = @ + 1, !.raised = None, !.reads = <<>>]
            /\ UNCHANGED <<obj, cache>>
       ELSE \E out \in SetupOutcomes(obj, fs, cache) :
               /\ obj' = out.obj
               /\ cache' = out.caches
               /\ trace' = [trace EXCEPT !.calls = @ + 1, !.steps = @ \o out.steps,
                                         !.raised = out.raised, !.reads = out.reads]
    /\ last_call' = [op |-> "none"]
    /\ UNCHANGED <<fs, readVars, treeVars, bertVars>>

\* a later run of the program constructs a new TwitterData; the files stay
NewInstance(split_type, tree) ==
    /\ trace.instances < MaxInstances
    /\ obj' = NewTwitterData(split_type, tree)
    /\ trace' = NewTrace(trace.instances + 1)
    /\ last_call' = [op |-> "none"]
    /\ UNCHANGED <<fs, cache, readVars, treeVars, bertVars>>

\* the environment rewrites the tree files of a sub-dataset
EditTreeFiles(t) ==
    /\ fs' = [fs EXCEPT ![t].tree = EditedTree(t, fs)]
    /\ UNCHANGED <<cache, obj, trace, last_call, readVars, treeVars, bertVars>>

NextData ==
    \/ Setup
    \/ \E st \in SplitArgs, tr \in BOOLEAN : NewInstance(st, tr)
    \/ \E t \in SubDatasets : EditTreeFiles(t)

SpecData == InitData /\ [][NextData]_vars

(***************************************************************************)
(* Use of a TwitterData instance by BertMNLIFinetuner: the dataloader      *)
(* properties and the per-phase step                                       *)
(***************************************************************************)
Phases == {"train", "val", "test"}
LoaderAttr(o, phase) ==
    CASE phase = "train" -> o._train_data
      [] phase = "val"   -> o._val_data
      [] phase = "test"  -> o._test_data

\* the properties train_dataloader / val_dataloader / test_dataloader: reading
\* an attribute that was never assigned raises AttributeError
ReadDataloader(o, phase) ==
    IF LoaderAttr(o, phase).py = "UNSET"
    THEN [raised |-> "AttributeError", value |-> UnsetV]
    ELSE [raised |-> None, value |-> LoaderAttr(o, phase)]

\* the default collate of a DataLoader batch: one column per tuple position
Collate(examples) ==
    [j \in 1..Len(examples[1]) |-> [i \in 1..Len(examples) |-> examples[i][j]]]

\* BertMNLIFinetuner.forward: the keyword arguments handed to self.bert
forward(input_ids, attention_mask, token_type_ids, tree) ==
    [input_ids |-> input_ids, attention_mask |-> attention_mask,
     token_type_ids |-> token_type_ids]

\* shared_my_step: the batch is unpacked by position and passed to forward
shared_my_step(batch, tree) ==
    IF tree
    THEN [bert |-> forward(batch[1], batch[2], batch[3], batch[4]), label |-> batch[5]]
    ELSE [bert |-> forward(batch[1], batch[2], batch[3], None), label |-> batch[4]]

\* self.twdata.train_dataloader etc., read through the model's accessors
DataloaderRead(phase) ==
    /\ last_call' = [op |-> "dataloader", phase |-> phase, res |-> ReadDataloader(obj, phase)]
    /\ UNCHANGED <<fs, cache, obj, trace, readVars, treeVars, bertVars>>

\* training_step / validation_step / test_step on a batch of the phase's
\* dataloader; the datasets of the model fit in one batch, taken in list order
Step(phase) ==
    /\ LoaderAttr(obj, phase).py = "DataLoader"
    /\ LoaderAttr(obj, phase).v.dataset.py = "list"
    /\ last_call' = [op |-> "step", phase |-> phase,
                     res |-> shared_my_step(Collate(LoaderAttr(obj, phase).v.dataset.v), obj.tree)]
    /\ UNCHANGED <<fs, cache, obj, trace, readVars, treeVars, bertVars>>

NextUse ==
    \/ Setup
    \/ \E phase \in Phases : DataloaderRead(phase)
    \/ \E phase \in Phases : Step(phase)

SpecUse == InitData /\ [][NextUse]_vars

(***************************************************************************)
(*                               Properties                                *)
(***************************************************************************)
Min(a, b) == IF a <= b THEN a ELSE b

ReadDone == read_out.op # "none" /\ read_out.res.raised = None
IdField(i) == file_lines[i][read_out.idpos]
ValField(i) == file_lines[i][read_out.valpos]
\* line j repeats the id of the earlier line i, which is the first to carry it
RepeatsId(i, j) ==
    /\ i < j
    /\ IdField(i) = IdField(j)
    /\ \A h \in 1..(i - 1) : IdField(h) # IdField(i)

\* C2: when two lines of a source-text or label file share the same id, the
\* returned mapping holds that id exactly once, bound to the value of the
\* first line that carried it, and a diagnostic is printed for the later line.
C2_FirstOccurrenceWins ==
    ReadDone =>
        \A i, j \in 1..Len(file_lines) :
            RepeatsId(i, j) =>
                LET key == PyInt(IntOfStr(IdField(i)))
                    res == read_out.res
                IN /\ Cardinality({ h \in 1..Len(res.pairs) : PyEq(res.pairs[h][1], key) }) = 1
                   /\ DictGet(res.pairs, key) = ValField(i)
                   /\ res.printed # <<>>

EncDone == enc_out.op # "none" /\ tree_in.max_length >= 1
Delta(tree, i) == tree[i].t - tree[1].t
NonNegNodes(tree) == { i \in 1..Len(tree) : Delta(tree, i) >= 0 }
\* the non-negative time differences among the first n nodes in level order
NonNegAmongFirst(tree, n) ==
    LET order == LevelOrderIter(tree)
        first == SubSeq(order, 1, Min(n, Len(order)))
        IsNonNeg(i) == Delta(tree, i) >= 0
        kept == SelectSeq(first, IsNonNeg)
    IN [k \in 1..Len(kept) |-> Delta(tree, kept[k])]

C4_LengthIsL ==
    EncDone =>
        \A k \in DOMAIN tree_in.tree_map :
            LET one == enc_out.res.per_tree[k]
                vec == enc_out.res.encoded_trees[k]
                L == tree_in.max_length
                n == Len(one.emitted)
            IN /\ Len(vec) = L
               /\ Len(one.padded) = L
               /\ n <= L
               /\ \A m \in 1..n : one.padded[m] = Log10Plus1(one.emitted[m])
               /\ \A m \in (n + 1)..L : one.padded[m] = 0
               /\ \A m \in 1..L : vec[m] = one.padded[m] * enc_out.res.den - enc_out.res.my_mean

\* a tree with negative and non-negative nodes whose encoding had to be padded
C4_Witness ==
    /\ EncDone
    /\ \E k \in DOMAIN tree_in.tree_map :
          LET tree == tree_in.tree_map[k]
              n == Len(enc_out.res.per_tree[k].emitted)
          IN /\ n >= 2
             /\ n < tree_in.max_length
             /\ \E i \in 1..Len(tree) : Delta(tree, i) < 0
             /\ Len(enc_out.res.encoded_trees[k]) = tree_in.max_length

RECURSIVE Pow2(_)
Pow2(k) == IF k = 0 THEN 1 ELSE 2 * Pow2(k - 1)

\* C8: after freeze_layer('half') on an encoder with P parameters, exactly
\* the parameters at enumeration indices 0..P//2 are frozen and exactly those
\* at indices P//2+1..P-1 are trainable.
C8_HalfBoundary ==
    last_freeze = "half" =>
        LET P == Len(requires_grad)
        IN /\ { i \in 0..(P - 1) : ~requires_grad[i + 1] } = 0..(P \div 2)
           /\ { i \in 0..(P - 1) : requires_grad[i + 1] } = ((P \div 2) + 1)..(P - 1)

\* 'half' applied to an encoder that was fully trainable, with both sides non-empty
C8_Witness ==
    /\ last_freeze = "half"
    /\ Len(requires_grad) >= 4
    /\ \E i \in 1..Len(requires_grad) : requires_grad[i]
    /\ \E i \in 1..Len(requires_grad) : ~requires_grad[i]

StartWidth == IF hparams.tree THEN hparams.hidden_size + TreeHiddenDim ELSE hparams.hidden_size
LinearAt(k) == classifier[3 * (k - 1) + 1]

\* C9: layer_num = n yields n linear layers whose input widths are W, W//2,
\* ..., W//2^(n-1) (W = hidden size, plus 100 in tree mode), each but the last
\* followed by ReLU then dropout, the last one mapping to num_classes; for
\* n = 3 these are W -> W//2, W//2 -> W//4 and W//4 -> num_classes.
C9_ClassifierWidths ==
    classifier # UNSET =>
        LET n == hparams.layer_num
            W == StartWidth
        IN /\ Len(classifier) = 3 * (n - 1) + 1
           /\ Cardinality({ i \in 1..Len(classifier) : classifier[i].kind = "Linear" }) = n
           /\ \A k \in 1..(n - 1) :
                 /\ LinearAt(k) = Linear(W \div Pow2(k - 1), W \div Pow2(k))
                 /\ classifier[3 * (k - 1) + 2] = ReLU
                 /\ classifier[3 * (k - 1) + 3] = Dropout
           /\ LinearAt(n) = Linear(W \div Pow2(n - 1), DefaultNClass)
           /\ (n = 3 => classifier = << Linear(W, W \div 2), ReLU, Dropout,
                                        Linear(W \div 2, W \div 4), ReLU, Dropout,
                                        Linear(W \div 4, DefaultNClass) >>)

\* a three-layer head built in tree mode on an odd starting width
C9_Witness ==
    /\ classifier # UNSET
    /\ hparams.layer_num = 3
    /\ hparams.tree
    /\ StartWidth % 2 = 1
    /\ Len(classifier) = 7

SetupStep == trace'.instances = trace.instances /\ trace'.calls = trace.calls + 1
IsPrefix(a, b) == Len(a) <= Len(b) /\ a = SubSeq(b, 1, Len(a))
SplitPassed == Len(trace.steps) >= 3
Ready(o) ==
    /\ ~o.setup_flag
    /\ o.dataset.py = "dict"
    /\ o._train_data.py = "DataLoader"
    /\ o._test_data.py = "DataLoader"

\* C1: setup() is a one-shot initialisation.  The first call on an instance
\* (Uninitialized) clears the flag and runs load, split, tensorize and
\* dataloader construction in that order, ending Ready when nothing raises;
\* every later call on the instance changes none of train/val/test, the
\* tensorized dataset and the dataloaders, and runs no step.
C1_SetupOneShot ==
    [][SetupStep =>
         IF obj.setup_flag
         THEN /\ ~obj'.setup_flag
              /\ IsPrefix(trace'.steps, SetupSteps)
              /\ trace'.steps # <<>>
              /\ (trace'.raised = None => trace'.steps = SetupSteps /\ Ready(obj'))
         ELSE /\ obj' = obj
              /\ trace'.steps = trace.steps
              /\ trace'.raised = None
              /\ cache' = cache]_vars

\* a second call has been made on an instance whose first call completed
C1_Witness ==
    /\ trace.calls = 2
    /\ trace.steps = SetupSteps
    /\ Ready(obj)
    /\ obj.train.py = "list"

\* C5: a split strategy outside {1516, tv, tvt, 15_tvt, 16_tvt} is stored as
\* the sentinel '641620'; the split step then raises nothing and leaves
\* train, val and test None.
C5_InvalidSplitDegrades ==
    obj.ctor_split \notin {"1516", "tv", "tvt", "15_tvt", "16_tvt"} =>
        /\ obj.split_type = "641620"
        /\ Len(trace.steps) >= 2 =>
              /\ SplitPassed
              /\ obj.train = NoneV /\ obj.val = NoneV /\ obj.test = NoneV

\* an instance built with 'tt' has gone through its split step
C5_Witness ==
    /\ obj.ctor_split = "tt"
    /\ obj.split_type = Sentinel
    /\ SplitPassed
    /\ obj.train = NoneV

BagOf(seq) == [x \in SeqRange(seq) |-> Cardinality({ i \in 1..Len(seq) : seq[i] = x })]
Pooled(o) ==
    LET d == o.loaded.v
    IN [i \in 1..(Len(d.tw15_X) + Len(d.tw16_X)) |->
           IF i <= Len(d.tw15_X) THEN <<d.tw15_X[i], d.tw15_y[i]>>
           ELSE <<d.tw16_X[i - Len(d.tw15_X)], d.tw16_y[i - Len(d.tw15_X)]>>]
TwentyPercent(n) == n - (4 * n) \div 5

\* C6: with 'tvt', after the split step train, val and test are all present
\* and every pooled Twitter15+Twitter16 example is in exactly one of them:
\* together they hold the pooled examples once each, and (the pooled examples
\* being distinct) no two of them share an example; test is the 20% side of
\* the first split and val the 20% side of the split of the remaining 80%.
C6_TvtPartition ==
    obj.split_type = "tvt" /\ SplitPassed =>
        /\ obj.train.py = "list" /\ obj.val.py = "list" /\ obj.test.py = "list"
        /\ LET tr == obj.train.v
               va == obj.val.v
               te == obj.test.v
               all == Pooled(obj)
               N == Len(all)
           IN /\ BagOf(tr \o va \o te) = BagOf(all)
              /\ Len(te) = TwentyPercent(N)
              /\ Len(va) = TwentyPercent(N - Len(te))
              /\ Len(tr) = N - Len(te) - Len(va)
              /\ (Cardinality(SeqRange(all)) = N =>
                    /\ SeqRange(tr) \cap SeqRange(va) = {}
                    /\ SeqRange(tr) \cap SeqRange(te) = {}
                    /\ SeqRange(va) \cap SeqRange(te) = {})

\* five pooled examples split 3 / 1 / 1
C6_Witness ==
    /\ obj.split_type = "tvt"
    /\ trace.steps = SetupSteps
    /\ trace.raised = None
    /\ obj.train.py = "list" /\ Len(obj.train.v) = 3
    /\ obj.val.py = "list" /\ Len(obj.val.v) = 1
    /\ obj.test.py = "list" /\ Len(obj.test.v) = 1

\* C7: with '1516', after the split step train is exactly the Twitter15
\* examples, each paired with its label, in order, test is exactly the
\* Twitter16 examples, and val is None.
C7_Split1516 ==
    obj.split_type = "1516" /\ SplitPassed =>
        LET d == obj.loaded.v
        IN /\ obj.train.py = "list" /\ obj.test.py = "list"
           /\ Len(obj.train.v) = Len(d.tw15_X)
           /\ \A i \in 1..Len(d.tw15_X) : obj.train.v[i] = <<d.tw15_X[i], d.tw15_y[i]>>
           /\ Len(obj.test.v) = Len(d.tw16_X)
           /\ \A i \in 1..Len(d.tw16_X) : obj.test.v[i] = <<d.tw16_X[i], d.tw16_y[i]>>
           /\ obj.val = NoneV

\* a '1516' instance set up over two sub-datasets of different sizes and classes
C7_Witness ==
    /\ obj.split_type = "1516"
    /\ trace.steps = SetupSteps
    /\ trace.raised = None
    /\ obj.n_class = 2
    /\ Len(obj.train.v) = 3
    /\ Len(obj.test.v) = 2
    /\ obj.val = NoneV

FreshParse(dir) == [k \in { IntOfStr(fn) : fn \in DOMAIN dir } |->
                       _build_tree(dir[CHOOSE fn \in DOMAIN dir : IntOfStr(fn) = k])]
\* what one _read_tree call did, given the cache file it found
ReadFollowsCache(r) ==
    IF r.before.py = "pickle"
    THEN ~r.listed /\ r.after = r.before /\ r.returned = r.before.v /\ r.raised = None
    ELSE /\ r.listed
         /\ IF r.raised = None
            THEN r.after.py = "pickle" /\ r.after.v = r.returned
                 /\ DOMAIN r.returned = { IntOfStr(fn) : fn \in DOMAIN r.dir }
            ELSE r.after = r.before

\* C10: _read_tree parses the tree directory and writes tree_maps_{dataset}.p
\* only when that file is absent; when it is present the call returns the
\* cached map without listing the directory or rewriting the file, so a file
\* once written never changes and later calls return its map whatever
\* happened to the tree files.
C10_CacheNeverInvalidated ==
    [][/\ \A k \in 1..Len(trace'.reads) : ReadFollowsCache(trace'.reads[k])
       /\ \A t \in {"twitter15", "twitter16"} :
             cache[t].py = "pickle" => cache'[t] = cache[t]]_vars

\* a call served a cached map that differs from what the directory now holds
C10_Witness ==
    \E k \in 1..Len(trace.reads) :
        LET r == trace.reads[k]
        IN /\ r.before.py = "pickle"
           /\ ~r.listed
           /\ r.returned # FreshParse(r.dir)
           /\ trace.instances = 2

StepDone == last_call.op = "step"

\* C11: each batch field reaches the encoder argument of the same meaning:
\* in every per-phase step, tree mode on or off, the value passed to the
\* encoder as attention_mask is the tokenizer's attention mask and the value
\* passed as token_type_ids is the tokenizer's token-type ids.
C11_FieldsReachSameArgument ==
    StepDone =>
        LET call == last_call.res.bert
        IN /\ \A i \in 1..Len(call.input_ids) : call.input_ids[i][1] = "input_ids"
           /\ \A i \in 1..Len(call.attention_mask) :
                 call.attention_mask[i][1] = "attention_mask"
           /\ \A i \in 1..Len(call.token_type_ids) :
                 call.token_type_ids[i][1] = "token_type_ids"

\* setup() has run all its steps and returned
SetupCompleted == trace.steps = SetupSteps /\ Ready(obj)

\* C12: once setup() has completed without error for an accepted split
\* strategy, train_dataloader, val_dataloader and test_dataloader can all be
\* read and return a value instead of failing on an unset attribute.
C12_DataloadersReadable ==
    /\ SetupCompleted
    /\ obj.ctor_split \in {"1516", "tv", "tvt", "15_tvt", "16_tvt"}
    /\ last_call.op = "dataloader"
    => last_call.res.raised = None

\* the instance has no dataloader
NoDataloaders(o) ==
    o._train_data.py = "UNSET" /\ o._test_data.py = "UNSET" /\ o._val_data.py = "UNSET"

\* C13: the steps of setup() are attempted at most once per instance, also on
\* failure: a first call that raises leaves the flag cleared and no
\* dataloader, and every later call returns at once, runs no step and leaves
\* the instance without dataloaders.
C13_FailedSetupNotRetried ==
    [][SetupStep =>
         /\ Len(trace'.steps) <= Len(SetupSteps)
         /\ (obj.setup_flag /\ trace'.raised # None =>
                ~obj'.setup_flag /\ NoDataloaders(obj'))
         /\ (~obj.setup_flag /\ NoDataloaders(obj) =>
                /\ trace'.steps = trace.steps
                /\ trace'.raised = None
                /\ ~obj'.setup_flag
                /\ NoDataloaders(obj')
                /\ obj' = obj)]_vars

\* setup() was called again on an instance whose first call raised part-way
C13_Witness ==
    /\ trace.calls = 2
    /\ trace.steps # <<>>
    /\ trace.steps # SetupSteps
    /\ ~obj.setup_flag
    /\ NoDataloaders(obj)

====
